---- MODULE Spec2Model ----
(***************************************************************************)
(* A model of the bencode codec (to_json/bencode.py) and of the torrent    *)
(* metadata extractor (to_json/tor_cache_data.py).                         *)
(*                                                                         *)
(* Byte strings are sequences of byte values (Python's x[f] is an int),    *)
(* text is a sequence of code points.  A decoded value is a tagged record  *)
(* record: [t |-> "int", i], [t |-> "bytes", b], [t |-> "list", l],       *)
(* [t |-> "bensorted", sorted] (Bensorted: a sequence of <<key, value>>     *)
(* pairs) or [t |-> "dict", d] (a Python dict: a function from its keys).  *)
(***************************************************************************)
EXTENDS Integers, Sequences, FiniteSets, TLC

VARIABLES
    x,          \* the input buffer handed to bdecode / decode_torrent
    in_order,   \* bdecode's in_order flag
    pc,         \* where the caller is: "start", "decoded", "encoded", ...
    r,          \* what bdecode returned or raised
    out,        \* what bencode returned
    val,        \* a value the caller built itself and hands to bencode
    self_sorted, \* the `sorted` field of a Bensorted object
    ret,        \* the last Bensorted method call: its arguments, what it
                \* returned or raised, and the entries before it
    max_files,  \* decode_torrent's max_files: <<>> is None, <<m>> is m
    decode_names, \* decode_torrent's decode_names
    res,        \* what decode_torrent(x, ...) returned or raised
    x2,         \* a second torrent buffer
    res2        \* what decode_torrent(x2, ...) returned or raised

codecVars == <<x, in_order, pc, r, out, val>>
objVars == <<self_sorted, ret>>
torrentVars == <<max_files, decode_names, res, x2, res2>>
vars == <<x, in_order, pc, r, out, val, self_sorted, ret,
          max_files, decode_names, res, x2, res2>>

----------------------------------------------------------------------------
(* Byte values the source names. *)
Byte_e == 101
Byte_i == 105
Byte_l == 108
Byte_d == 100
Byte_colon == 58
Byte_minus == 45
Byte_0 == 48
Byte_9 == 57
Byte_plus == Byte_minus - 2

Min(S) == CHOOSE m \in S : \A o \in S : m <= o
Max(S) == CHOOSE m \in S : \A o \in S : m >= o

(* The values of the Value Model. *)
IntV(n) == [t |-> "int", i |-> n]
BytesV(s) == [t |-> "bytes", b |-> s]
ListV(l) == [t |-> "list", l |-> l]
Bensorted(s) == [t |-> "bensorted", sorted |-> s]
DictV(d) == [t |-> "dict", d |-> d]
NoValue == [t |-> "none"]
EmptyDict == [k \in {} |-> NoValue]

----------------------------------------------------------------------------
(* Python's sequence primitives, with its negative-index rules. *)

\* x[i] raises IndexError outside -len(x) .. len(x)-1
PyGetOk(s, i) == i >= 0 - Len(s) /\ i < Len(s)
PyGet(s, i) == IF i >= 0 THEN s[i + 1] ELSE s[Len(s) + i + 1]

\* a slice bound: negative counts from the end, then clamped to 0 .. len
PyClamp(s, i) == IF i < 0 THEN (IF i + Len(s) < 0 THEN 0 ELSE i + Len(s))
                 ELSE (IF i > Len(s) THEN Len(s) ELSE i)

\* s[a:b]
PySlice(s, a, b) ==
    LET lo == PyClamp(s, a)
        hi == PyClamp(s, b)
    IN  IF lo >= hi THEN <<>> ELSE SubSeq(s, lo + 1, hi)

\* s.index(bytes([b]), start): the position, or -1 where Python raises ValueError
PyIndex(s, b, start) ==
    LET C == {i \in PyClamp(s, start) .. Len(s) - 1 : s[i + 1] = b}
    IN  IF C = {} THEN 0 - 1 ELSE Min(C)

IsDigit(b) == b >= Byte_0 /\ b <= Byte_9

\* int(s) of a byte string.  Python also strips white space and allows single
\* underscores between digits; the buffers of this model hold neither.
PyIntBody(s) == IF s # <<>> /\ s[1] \in {Byte_minus, Byte_plus} THEN Tail(s) ELSE s
PyIntOk(s) == PyIntBody(s) # <<>> /\ \A k \in 1 .. Len(PyIntBody(s)) : IsDigit(PyIntBody(s)[k])

RECURSIVE DigitsVal(_)
DigitsVal(s) == IF s = <<>> THEN 0
                ELSE 10 * DigitsVal(SubSeq(s, 1, Len(s) - 1)) + (s[Len(s)] - Byte_0)

PyInt(s) == IF s[1] = Byte_minus THEN 0 - DigitsVal(PyIntBody(s)) ELSE DigitsVal(PyIntBody(s))

\* str(n).encode("utf8") of an int
RECURSIVE NatStr(_)
NatStr(n) == IF n < 10 THEN <<Byte_0 + n>> ELSE NatStr(n \div 10) \o <<Byte_0 + (n % 10)>>

IntStr(n) == IF n < 0 THEN <<Byte_minus>> \o NatStr(0 - n) ELSE NatStr(n)

\* int == str and int == bytes are False in Python 3, whatever the operands
IntEqStr(b, s) == FALSE
IntEqBytes(b, s) == FALSE

----------------------------------------------------------------------------
(* The decoder.  A sub-decoder returns [err, v, f]: err is "" and (v, f)    *)
(* the value and the new position, or err names the exception raised.      *)
(* "Diverge" stands for a run that does not return: the budget of nested   *)
(* calls and loop rounds, Budget(x), is used up.                           *)

Ok(v, f) == [err |-> "", v |-> v, f |-> f]
Fail(e) == [err |-> e, v |-> NoValue, f |-> 0]

Budget(s) == 2 * Len(s) + 4

decode_int(s, f0) ==
    LET f == f0 + 1
        newf == PyIndex(s, Byte_e, f)
    IN  IF newf < 0 THEN Fail("ValueError")
        ELSE IF ~PyIntOk(PySlice(s, f, newf)) THEN Fail("ValueError")
        ELSE IF ~PyGetOk(s, f) THEN Fail("IndexError")
        ELSE IF PyGet(s, f) = Byte_minus
             THEN (IF ~PyGetOk(s, f + 1) THEN Fail("IndexError")
                   ELSE IF IntEqBytes(PyGet(s, f + 1), <<Byte_0>>) THEN Fail("ValueError")
                   ELSE Ok(IntV(PyInt(PySlice(s, f, newf))), newf + 1))
        ELSE IF PyGet(s, f) = Byte_0 /\ newf # f + 1 THEN Fail("ValueError")
        ELSE Ok(IntV(PyInt(PySlice(s, f, newf))), newf + 1)

decode_string(s, f) ==
    LET colon == PyIndex(s, Byte_colon, f)
    IN  IF colon < 0 THEN Fail("ValueError")
        ELSE IF ~PyIntOk(PySlice(s, f, colon)) THEN Fail("ValueError")
        ELSE IF ~PyGetOk(s, f) THEN Fail("IndexError")
        ELSE IF IntEqStr(PyGet(s, f), "0") /\ colon # f + 1 THEN Fail("ValueError")
        ELSE LET n == PyInt(PySlice(s, f, colon))
             IN  Ok(BytesV(PySlice(s, colon + 1, colon + 1 + n)), colon + 1 + n)

\* r[k] = v of a dict
DictSet(d, k, v) == [kk \in (DOMAIN d) \cup {k} |-> IF kk = k THEN v ELSE d[kk]]

RECURSIVE decode_value(_, _, _, _)
RECURSIVE decode_list_loop(_, _, _, _, _)
RECURSIVE decode_dict_loop(_, _, _, _, _)
RECURSIVE decode_dict_ordered_loop(_, _, _, _, _)

decode_list(tbl, s, f, fuel) == decode_list_loop(tbl, s, f + 1, <<>>, fuel)

decode_dict(tbl, s, f, fuel) == decode_dict_loop(tbl, s, f + 1, EmptyDict, fuel)

\* mutant: the ordered table sends a dictionary to decode_dict
decode_dict_ordered_as_dict(tbl, s, f, fuel) == decode_dict_loop(tbl, s, f + 1, EmptyDict, fuel)

decode_dict_ordered(tbl, s, f, fuel) == decode_dict_ordered_loop(tbl, s, f + 1, <<>>, fuel)

\* decode_func_type[x[f]](decode_func_type, x, f); tbl names the dispatch table
decode_value(tbl, s, f, fuel) ==
    IF fuel = 0 THEN Fail("Diverge")
    ELSE IF ~PyGetOk(s, f) THEN Fail("IndexError")
    ELSE LET b == PyGet(s, f)
         IN  IF b = Byte_l THEN decode_list(tbl, s, f, fuel - 1)
             ELSE IF b = Byte_d
                  THEN (IF tbl = "decode_func_ordered"
                        THEN decode_dict_ordered(tbl, s, f, fuel - 1)
                        ELSE decode_dict(tbl, s, f, fuel - 1))
             ELSE IF b = Byte_i THEN decode_int(s, f)
             ELSE IF IsDigit(b) THEN decode_string(s, f)
             ELSE Fail("KeyError")

decode_list_loop(tbl, s, f, acc, fuel) ==
    IF fuel = 0 THEN Fail("Diverge")
    ELSE IF ~PyGetOk(s, f) THEN Fail("IndexError")
    ELSE IF PyGet(s, f) = Byte_e THEN Ok(ListV(acc), f + 1)
    ELSE LET d == decode_value(tbl, s, f, fuel - 1)
         IN  IF d.err # "" THEN d
             ELSE decode_list_loop(tbl, s, d.f, Append(acc, d.v), fuel - 1)

decode_dict_loop(tbl, s, f, acc, fuel) ==
    IF fuel = 0 THEN Fail("Diverge")
    ELSE IF ~PyGetOk(s, f) THEN Fail("IndexError")
    ELSE IF PyGet(s, f) = Byte_e THEN Ok(DictV(acc), f + 1)
    ELSE LET k == decode_string(s, f)
         IN  IF k.err # "" THEN k
             ELSE LET d == decode_value(tbl, s, k.f, fuel - 1)
                  IN  IF d.err # "" THEN d
                      ELSE decode_dict_loop(tbl, s, d.f, DictSet(acc, k.v.b, d.v), fuel - 1)

decode_dict_ordered_loop(tbl, s, f, acc, fuel) ==
    IF fuel = 0 THEN Fail("Diverge")
    ELSE IF ~PyGetOk(s, f) THEN Fail("IndexError")
    ELSE IF PyGet(s, f) = Byte_e THEN Ok(Bensorted(acc), f + 1)
    ELSE LET k == decode_string(s, f)
         IN  IF k.err # "" THEN k
             ELSE LET d == decode_value(tbl, s, k.f, fuel - 1)
                  IN  IF d.err # "" THEN d
                      ELSE decode_dict_ordered_loop(tbl, s, d.f,
                                                    Append(acc, <<k.v.b, d.v>>), fuel - 1)

\* What bdecode does: [err, msg, v].  err is "" (v is returned), "BTFailure"
\* (msg is its message) or "Diverge" (no return).
MsgNotValid == "not a valid bencoded string"
MsgTrailing == "invalid bencoded value (data after valid prefix)"

bdecode(s, ordered) ==
    LET d == decode_value(IF ordered THEN "decode_func_ordered" ELSE "decode_func",
                          s, 0, Budget(s))
    IN  IF d.err = "Diverge" THEN [err |-> "Diverge", msg |-> "", v |-> NoValue]
        ELSE IF d.err # "" THEN [err |-> "BTFailure", msg |-> MsgNotValid, v |-> NoValue]
        ELSE IF d.f # Len(s) THEN [err |-> "BTFailure", msg |-> MsgTrailing, v |-> NoValue]
        ELSE [err |-> "", msg |-> "", v |-> d.v]

----------------------------------------------------------------------------
(* The encoder. *)

\* mutant: the shorter key first, then byte by byte
BytesLt_by_length(a, b) ==
    IF Len(a) # Len(b) THEN Len(a) < Len(b)
    ELSE LET D == {k \in 1 .. Len(a) : a[k] # b[k]}
         IN  D # {} /\ a[Min(D)] < b[Min(D)]

\* bytes a < bytes b in Python: the first differing byte decides, else the length
BytesLt(a, b) ==
    LET n == IF Len(a) < Len(b) THEN Len(a) ELSE Len(b)
        D == {k \in 1 .. n : a[k] # b[k]}
    IN  IF D = {} THEN Len(a) < Len(b) ELSE a[Min(D)] < b[Min(D)]

\* ilist = list(x.items()); ilist.sort(): the keys of a dict are distinct, so
\* the sort of the (key, value) tuples is decided by the keys alone
RECURSIVE SortedKeys(_)
SortedKeys(S) ==
    IF S = {} THEN <<>>
    ELSE LET m == CHOOSE k \in S : \A o \in S \ {k} : BytesLt(k, o)
         IN  <<m>> \o SortedKeys(S \ {m})

encode_int(n) == <<Byte_i>> \o IntStr(n) \o <<Byte_e>>

encode_string(s) == IntStr(Len(s)) \o <<Byte_colon>> \o s

RECURSIVE encode_value(_)
RECURSIVE encode_list_items(_, _)
RECURSIVE encode_dict_items(_, _, _)
RECURSIVE encode_bensorted_items(_, _)

encode_list(l) == <<Byte_l>> \o encode_list_items(l, 1) \o <<Byte_e>>

encode_dict(d) == <<Byte_d>> \o encode_dict_items(d, SortedKeys(DOMAIN d), 1) \o <<Byte_e>>

encode_bensorted(s) == <<Byte_d>> \o encode_bensorted_items(s, 1) \o <<Byte_e>>

\* encode_func[type(x)](x, r)
encode_value(v) ==
    IF v.t = "int" THEN encode_int(v.i)
    ELSE IF v.t = "bytes" THEN encode_string(v.b)
    ELSE IF v.t = "list" THEN encode_list(v.l)
    ELSE IF v.t = "bensorted" THEN encode_bensorted(v.sorted)
    ELSE encode_dict(v.d)

encode_list_items(l, k) ==
    IF k > Len(l) THEN <<>>
    ELSE encode_value(l[k]) \o encode_list_items(l, k + 1)

encode_dict_items(d, ilist, k) ==
    IF k > Len(ilist) THEN <<>>
    ELSE IntStr(Len(ilist[k])) \o <<Byte_colon>> \o ilist[k] \o encode_value(d[ilist[k]])
         \o encode_dict_items(d, ilist, k + 1)

encode_bensorted_items(s, k) ==
    IF k > Len(s) THEN <<>>
    ELSE IntStr(Len(s[k][1])) \o <<Byte_colon>> \o s[k][1] \o encode_value(s[k][2])
         \o encode_bensorted_items(s, k + 1)

bencode(v) == encode_value(v)

----------------------------------------------------------------------------
(* The inputs of the codec. *)

MaxLen == 5
MaxTokens == 6

Byte_3 == Byte_0 + 3
Byte_a == Byte_e - 4
Byte_b == Byte_e - 3

\* every buffer of at most MaxLen bytes over these bytes
Alphabet == {Byte_i, Byte_e, Byte_l, Byte_d, Byte_minus, Byte_0, Byte_3, Byte_colon, Byte_a}
RawBuffers == UNION {[1 .. n -> Alphabet] : n \in 0 .. MaxLen}

\* every concatenation of at most MaxTokens of these tokens
Tokens == { <<Byte_d>>, <<Byte_l>>, <<Byte_e>>,
            <<Byte_i, Byte_minus, Byte_3, Byte_e>>,
            <<Byte_0, Byte_colon>>, <<Byte_0 + 1, Byte_colon, Byte_b>> }

RECURSIVE Concat(_, _)
Concat(ts, k) == IF k > Len(ts) THEN <<>> ELSE ts[k] \o Concat(ts, k + 1)

TokenBuffers == {Concat(ts, 1) : ts \in UNION {[1 .. n -> Tokens] : n \in 0 .. MaxTokens}}

----------------------------------------------------------------------------
(* The caller of the codec: decode a buffer, re-encode what was decoded. *)

NoResult == [err |-> "none", msg |-> "", v |-> NoValue]
NoRet == [op |-> "none"]
NoOutcome == [err |-> "none"]

\* the parts of the state a specification does not use
ObjectIdle == self_sorted = <<>> /\ ret = NoRet
TorrentIdle ==
    /\ max_files = <<>> /\ decode_names = TRUE
    /\ res = NoOutcome /\ x2 = <<>> /\ res2 = NoOutcome

Bdecode ==
    /\ pc = "start"
    /\ r' = bdecode(x, in_order)
    /\ pc' = "decoded"
    /\ UNCHANGED <<x, in_order, out, val>>
    /\ UNCHANGED <<objVars, torrentVars>>

Bencode ==
    /\ pc = "decoded"
    /\ r.err = ""
    /\ out' = bencode(r.v)
    /\ pc' = "encoded"
    /\ UNCHANGED <<x, in_order, r, val>>
    /\ UNCHANGED <<objVars, torrentVars>>

Init ==
    /\ x \in RawBuffers
    /\ in_order \in BOOLEAN
    /\ pc = "start"
    /\ r = NoResult
    /\ out = <<>>
    /\ val = NoValue
    /\ ObjectIdle /\ TorrentIdle

Next == Bdecode \/ Bencode

Spec == Init /\ [][Next]_vars

InitOrdered ==
    /\ x \in TokenBuffers
    /\ in_order = TRUE
    /\ pc = "start"
    /\ r = NoResult
    /\ out = <<>>
    /\ val = NoValue
    /\ ObjectIdle /\ TorrentIdle

SpecOrdered == InitOrdered /\ [][Next]_vars

----------------------------------------------------------------------------
(* A caller that builds a value from ints, bytes, lists and dicts, encodes  *)
(* it and decodes the bytes again with in_order=False.                      *)

MaxListLen == 2

CanonKeys == { <<>>, <<Byte_b>>, <<Byte_a, Byte_b>> }
Leaves == { IntV(0), IntV(0 - 3), IntV(10), BytesV(<<>>), BytesV(<<Byte_a, Byte_b>>) }
ListsOver(S) == {ListV(l) : l \in UNION {[1 .. n -> S] : n \in 0 .. MaxListLen}}
DictsOver(S) == {DictV(d) : d \in UNION {[K -> S] : K \in SUBSET CanonKeys}}
Level1 == Leaves \cup ListsOver(Leaves) \cup DictsOver(Leaves)
Inner == { IntV(10), BytesV(<<Byte_a, Byte_b>>),
           ListV(<<IntV(0 - 3), BytesV(<<>>)>>),
           DictV([k \in {<<Byte_b>>, <<Byte_a, Byte_b>>} |-> IntV(0)]),
           DictV([k \in {<<>>} |-> ListV(<<>>)]) }
CanonTrees == Level1 \cup ListsOver(Inner) \cup DictsOver(Inner)

BencodeValue ==
    /\ pc = "value"
    /\ x' = bencode(val)
    /\ pc' = "start"
    /\ UNCHANGED <<in_order, r, out, val>>
    /\ UNCHANGED <<objVars, torrentVars>>

InitCanon ==
    /\ val \in CanonTrees
    /\ x = <<>>
    /\ in_order = FALSE
    /\ pc = "value"
    /\ r = NoResult
    /\ out = <<>>
    /\ ObjectIdle /\ TorrentIdle

NextCanon == BencodeValue \/ Bdecode \/ Bencode

SpecCanon == InitCanon /\ [][NextCanon]_vars

----------------------------------------------------------------------------
(* The Bensorted object: its methods over the `sorted` list of (key, value) *)
(* tuples.  A method returns [err, v, sorted]: the exception raised ("" for *)
(* none), the value returned and the list afterwards.                       *)

BoolV(b) == [t |-> "bool", flag |-> b]

RECURSIVE Bensorted_getitem_loop(_, _, _)
Bensorted_getitem_loop(s, key, k) ==
    IF k > Len(s) THEN [err |-> "KeyError", v |-> NoValue, sorted |-> s]
    ELSE IF s[k][1] = key THEN [err |-> "", v |-> s[k][2], sorted |-> s]
    ELSE Bensorted_getitem_loop(s, key, k + 1)

Bensorted_getitem(s, key) == Bensorted_getitem_loop(s, key, 1)

\* mutant: the loop does not return after the first match
RECURSIVE Bensorted_setitem_every(_, _, _, _)
Bensorted_setitem_every(s, key, value, i) ==
    IF i >= Len(s)
    THEN [err |-> IF \E k \in 1 .. Len(s) : s[k][1] = key THEN "" ELSE "KeyError",
          v |-> NoValue, sorted |-> s]
    ELSE IF s[i + 1][1] = key
         THEN Bensorted_setitem_every([s EXCEPT ![i + 1] = <<key, value>>], key, value, i + 1)
    ELSE Bensorted_setitem_every(s, key, value, i + 1)

\* for i in range(len(self.sorted)): i is Python's 0-based index
RECURSIVE Bensorted_setitem_loop(_, _, _, _)
Bensorted_setitem_loop(s, key, value, i) ==
    IF i >= Len(s) THEN [err |-> "KeyError", v |-> NoValue, sorted |-> s]
    ELSE IF s[i + 1][1] = key
         THEN [err |-> "", v |-> NoValue, sorted |-> [s EXCEPT ![i + 1] = <<key, value>>]]
    ELSE Bensorted_setitem_loop(s, key, value, i + 1)

Bensorted_setitem(s, key, value) == Bensorted_setitem_loop(s, key, value, 0)

RECURSIVE Bensorted_contains_loop(_, _, _)
Bensorted_contains_loop(s, key, k) ==
    IF k > Len(s) THEN FALSE
    ELSE IF s[k][1] = key THEN TRUE
    ELSE Bensorted_contains_loop(s, key, k + 1)

Bensorted_contains(s, key) == Bensorted_contains_loop(s, key, 1)

RECURSIVE Bensorted_get_loop(_, _, _, _)
Bensorted_get_loop(s, key, default_value, k) ==
    IF k > Len(s) THEN default_value
    ELSE IF s[k][1] = key THEN s[k][2]
    ELSE Bensorted_get_loop(s, key, default_value, k + 1)

Bensorted_get(s, key, default_value) == Bensorted_get_loop(s, key, default_value, 1)

Bensorted_len(s) == Len(s)

(* A holder of one Bensorted object calling its methods in any order. *)

MaxEntries == 3

ObjKeys == { <<>>, <<Byte_a>>, <<Byte_b>> }
ObjValues == { IntV(1), BytesV(<<Byte_a>>) }
ObjEntries == { <<k, v>> : k \in {<<Byte_a>>, <<Byte_b>>}, v \in ObjValues }

Called(op, key, arg, m) ==
    [op |-> op, key |-> key, arg |-> arg, before |-> self_sorted, err |-> m.err, v |-> m.v]

GetItem ==
    /\ \E key \in ObjKeys :
          LET m == Bensorted_getitem(self_sorted, key)
          IN  /\ ret' = Called("getitem", key, NoValue, m)
              /\ self_sorted' = m.sorted
    /\ UNCHANGED <<codecVars, torrentVars>>

SetItem ==
    /\ \E key \in ObjKeys, value \in ObjValues \cup {IntV(2)} :
          LET m == Bensorted_setitem(self_sorted, key, value)
          IN  /\ ret' = Called("setitem", key, value, m)
              /\ self_sorted' = m.sorted
    /\ UNCHANGED <<codecVars, torrentVars>>

Contains ==
    /\ \E key \in ObjKeys :
          ret' = Called("contains", key, NoValue,
                        [err |-> "", v |-> BoolV(Bensorted_contains(self_sorted, key))])
    /\ UNCHANGED <<self_sorted, codecVars, torrentVars>>

Get ==
    /\ \E key \in ObjKeys, default_value \in {IntV(0), NoValue} :
          ret' = Called("get", key, default_value,
                        [err |-> "", v |-> Bensorted_get(self_sorted, key, default_value)])
    /\ UNCHANGED <<self_sorted, codecVars, torrentVars>>

LenOf ==
    /\ ret' = Called("len", <<>>, NoValue, [err |-> "", v |-> IntV(Bensorted_len(self_sorted))])
    /\ UNCHANGED <<self_sorted, codecVars, torrentVars>>

InitObject ==
    /\ self_sorted \in UNION {[1 .. n -> ObjEntries] : n \in 0 .. MaxEntries}
    /\ ret = NoRet
    /\ x = <<>> /\ in_order = TRUE /\ pc = "object" /\ r = NoResult /\ out = <<>>
    /\ val = NoValue
    /\ TorrentIdle

NextObject == GetItem \/ SetItem \/ Contains \/ Get \/ LenOf

SpecObject == InitObject /\ [][NextObject]_vars

----------------------------------------------------------------------------
(* Buffers with negative length prefixes: a dictionary key is read by       *)
(* decode_string whatever its first byte is, so its length may be negative  *)
(* and the position after it may lie before the key.                        *)

MaxDepthLen == 5
DepthAlphabet == {Byte_d, Byte_l, Byte_e, Byte_minus, Byte_0, Byte_0 + 4, Byte_colon}
DepthBuffers == UNION {[1 .. n -> DepthAlphabet] : n \in 0 .. MaxDepthLen}

\* b"d0:i0e-6:", b"d0:le-5:" and b"ld0:0:-5:": the key at the end leads back
\* to a position the loop has been at
LoopBuffers ==
    { <<Byte_d, Byte_0, Byte_colon, Byte_i, Byte_0, Byte_e, Byte_minus, Byte_0 + 6, Byte_colon>>,
      <<Byte_d, Byte_0, Byte_colon, Byte_l, Byte_e, Byte_minus, Byte_0 + 5, Byte_colon>>,
      <<Byte_l, Byte_d, Byte_0, Byte_colon, Byte_0, Byte_colon, Byte_minus, Byte_0 + 5,
        Byte_colon>> }

InitDepth ==
    /\ x \in DepthBuffers \cup LoopBuffers
    /\ in_order \in BOOLEAN
    /\ pc = "start"
    /\ r = NoResult
    /\ out = <<>>
    /\ val = NoValue
    /\ ObjectIdle /\ TorrentIdle

SpecDepth == InitDepth /\ [][Next]_vars

----------------------------------------------------------------------------
(* The metadata extractor, decode_torrent.  Text is a sequence of code      *)
(* points.  The keys and literals of the source, as bytes or code points:   *)

K_info == <<105, 110, 102, 111>>   \* 'info'
K_piece_length == <<112, 105, 101, 99, 101, 32, 108, 101, 110, 103, 116, 104>>   \* 'piece length'
K_file_tree == <<102, 105, 108, 101, 32, 116, 114, 101, 101>>   \* 'file tree'
K_name_utf8 == <<110, 97, 109, 101, 46, 117, 116, 102, 45, 56>>   \* 'name.utf-8'
K_name == <<110, 97, 109, 101>>   \* 'name'
K_files == <<102, 105, 108, 101, 115>>   \* 'files'
K_path_utf8 == <<112, 97, 116, 104, 46, 117, 116, 102, 45, 56>>   \* 'path.utf-8'
K_path == <<112, 97, 116, 104>>   \* 'path'
K_length == <<108, 101, 110, 103, 116, 104>>   \* 'length'
K_pieces == <<112, 105, 101, 99, 101, 115>>   \* 'pieces'
K_meta_version == <<109, 101, 116, 97, 32, 118, 101, 114, 115, 105, 111, 110>>   \* 'meta version'
T_torrent == <<116, 111, 114, 114, 101, 110, 116>>   \* 'torrent'
T_no_filename == <<60, 110, 111, 32, 102, 105, 108, 101, 110, 97, 109, 101, 32, 102, 111, 114, 32, 102, 105, 108, 101, 32, 35>>   \* '<no filename for file #'
T_close == <<62>>   \* '>'
T_slash == <<47>>   \* '/'
T_bensorted_repr == <<60, 98, 101, 110, 99, 111, 100, 101, 46, 66, 101, 110, 115, 111, 114, 116, 101, 100, 32, 111, 98, 106, 101, 99, 116, 32, 97, 116, 32, 48, 120>>   \* '<bencode.Bensorted object at 0x'

Raise(e) == [err |-> e]
PyNone == [t |-> "None"]
\* what iterating a Bensorted yields: a (key, value) tuple
TupleV == [t |-> "tuple"]

\* value.decode('utf-8', 'surrogatepass') for sequences of one or two bytes;
\* the inputs of this model hold no lead byte of a longer sequence.  The
\* result is <<TRUE, text>> or <<FALSE, <<>>>> for UnicodeDecodeError.
RECURSIVE Utf8Decode(_, _, _)
Utf8Decode(b, k, acc) ==
    IF k > Len(b) THEN <<TRUE, acc>>
    ELSE IF b[k] < 128 THEN Utf8Decode(b, k + 1, Append(acc, b[k]))
    ELSE IF b[k] >= 194 /\ b[k] <= 223 /\ k < Len(b) /\ b[k + 1] >= 128 /\ b[k + 1] <= 191
         THEN Utf8Decode(b, k + 2, Append(acc, (b[k] - 192) * 64 + (b[k + 1] - 128)))
    ELSE <<FALSE, <<>>>>

\* text.encode("utf-8", "surrogatepass") for code points below 2048
RECURSIVE Utf8Encode(_)
Utf8Encode(text) ==
    IF text = <<>> THEN <<>>
    ELSE (IF text[1] < 128 THEN <<text[1]>>
          ELSE <<192 + (text[1] \div 64), 128 + (text[1] % 64)>>) \o Utf8Encode(Tail(text))

RECURSIVE SafeAscii(_)
SafeAscii(b) ==
    IF b = <<>> THEN <<>>
    ELSE <<IF b[1] >= 32 /\ b[1] <= 126 THEN b[1] ELSE 46>> \o SafeAscii(Tail(b))

safe_decode(value) ==
    IF Utf8Decode(value, 1, <<>>)[1] THEN Utf8Decode(value, 1, <<>>)[2] ELSE SafeAscii(value)

\* "/".join(parts)
RECURSIVE Join(_)
Join(parts) ==
    IF parts = <<>> THEN <<>>
    ELSE IF Len(parts) = 1 THEN parts[1]
    ELSE parts[1] \o T_slash \o Join(Tail(parts))

\* sub in s, for bytes
HasSub(s, sub) == \E k \in 0 .. Len(s) - Len(sub) : SubSeq(s, k + 1, k + Len(sub)) = sub

\* lines 58-60: b'info' in torrent, torrent[b'info']
info_of(top) ==
    IF top.t = "int" THEN Raise("TypeError")
    ELSE IF top.t = "bytes"
         THEN (IF HasSub(top.b, K_info) THEN Raise("TypeError") ELSE [err |-> "", v |-> top])
    ELSE IF top.t = "list"
         THEN (IF \E k \in 1 .. Len(top.l) : top.l[k] = BytesV(K_info)
               THEN Raise("TypeError") ELSE [err |-> "", v |-> top])
    ELSE IF Bensorted_contains(top.sorted, K_info)
         THEN [err |-> "", v |-> Bensorted_getitem(top.sorted, K_info).v]
    ELSE [err |-> "", v |-> top]

\* lines 66-81, and the same text again at lines 98-113: [err, text]
torrent_name(s, names) ==
    IF ~names THEN [err |-> "", text |-> <<>>]
    ELSE LET n0 == Bensorted_get(s, K_name_utf8, Bensorted_get(s, K_name, BytesV(<<>>)))
             n1 == IF n0.t = "list"
                   THEN (IF Len(n0.l) > 0 THEN n0.l[1] ELSE BytesV(<<>>))
                   ELSE n0
             n2 == IF n1.t = "int" THEN BytesV(IntStr(n1.i)) ELSE n1
         IN  IF n2.t # "bytes" THEN Raise("AttributeError")
             ELSE [err |-> "",
                   text |-> IF Len(safe_decode(n2.b)) = 0 THEN T_torrent ELSE safe_decode(n2.b)]

\* lines 166-179: name is still '' here, so name[0] raises IndexError
single_file_name(s, names) ==
    IF ~names THEN [err |-> "", text |-> <<>>]
    ELSE LET t0 == Bensorted_get(s, K_name_utf8, Bensorted_get(s, K_name, BytesV(<<>>)))
             t1 == IF t0.t = "list" THEN BytesV(<<>>) ELSE t0
             t2 == IF t1.t = "int" THEN BytesV(IntStr(t1.i)) ELSE t1
         IN  IF t2.t # "bytes" THEN Raise("AttributeError")
             ELSE [err |-> "", text |-> safe_decode(t2.b)]

\* lines 83-91: [err, files]; k walks the entries of part
RECURSIVE decode_file_tree(_, _, _, _)
decode_file_tree(part, cur_path, k, files) ==
    IF k > Len(part) THEN [err |-> "", files |-> files]
    ELSE LET cur == safe_decode(part[k][1])
             value == part[k][2]
         IN  IF value.t # "bensorted" THEN decode_file_tree(part, cur_path, k + 1, files)
             ELSE IF Bensorted_contains(value.sorted, <<>>) /\ Bensorted_len(value.sorted) = 1
                  THEN LET leaf == Bensorted_getitem(value.sorted, <<>>).v
                       IN  IF leaf.t # "bensorted" THEN Raise("AttributeError")
                           ELSE decode_file_tree(part, cur_path, k + 1,
                                    Append(files,
                                           [name |-> Join(Append(cur_path, cur)),
                                            size |-> Bensorted_get(leaf.sorted, K_length, IntV(0))]))
             ELSE LET sub == decode_file_tree(value.sorted, Append(cur_path, cur), 1, files)
                  IN  IF sub.err # "" THEN sub
                      ELSE decode_file_tree(part, cur_path, k + 1, sub.files)

\* lines 152-161 and 183-192: the size of a file from its `length`
coerce_size(size) ==
    LET s1 == IF size.t = "list"
              THEN (IF Len(size.l) > 0 THEN size.l[1] ELSE IntV(0))
              ELSE size
    IN  IF s1.t = "bytes"
        THEN (IF Utf8Decode(s1.b, 1, <<>>)[1] /\ PyIntOk(Utf8Decode(s1.b, 1, <<>>)[2])
              THEN IntV(PyInt(Utf8Decode(s1.b, 1, <<>>)[2]))
              ELSE IntV(0))
        ELSE s1

\* lines 126-143: the path of one file, [err, text]
RECURSIVE decode_parts(_, _)
decode_parts(parts, k) ==
    IF k > Len(parts) THEN <<>>
    ELSE <<IF parts[k].t = "int" THEN IntStr(parts[k].i) ELSE safe_decode(parts[k].b)>>
         \o decode_parts(parts, k + 1)

file_path(current_file, name, file_index) ==
    LET p0 == Bensorted_get(current_file, K_path_utf8, PyNone)
        p1 == IF p0.t = "None" THEN Bensorted_get(current_file, K_path, ListV(<<>>)) ELSE p0
        parts == IF p1.t = "bensorted" THEN <<>>
                 ELSE IF p1.t # "list" THEN <<p1>>
                 ELSE p1.l
    IN  IF \E k \in 1 .. Len(parts) : parts[k].t \notin {"int", "bytes"}
        THEN Raise("AttributeError")
        ELSE LET temp == <<name>> \o decode_parts(parts, 1)
             IN  [err |-> "",
                  text |-> Join(IF Len(temp) = 1
                                THEN Append(temp, T_no_filename \o IntStr(file_index) \o T_close)
                                ELSE temp)]

\* line 117: what `for current_file in torrent[b'files']` walks, [err, items]
iter_items(v) ==
    IF v.t = "int" THEN Raise("TypeError")
    ELSE IF v.t = "bytes" THEN [err |-> "", items |-> [k \in 1 .. Len(v.b) |-> IntV(v.b[k])]]
    ELSE IF v.t = "list" THEN [err |-> "", items |-> v.l]
    ELSE [err |-> "", items |-> [k \in 1 .. Len(v.sorted) |-> TupleV]]

\* lines 116-162: [err, name, files]; file_index counts from 1, mf is max_files
RECURSIVE files_loop(_, _, _, _, _, _)
files_loop(items, file_index, mf, name, names, files) ==
    IF file_index > Len(items) THEN [err |-> "", name |-> name, files |-> files]
    ELSE IF mf # <<>> /\ mf[1] = 0 THEN [err |-> "", name |-> name, files |-> files]
    ELSE LET current_file == items[file_index]
             p == IF ~names THEN [err |-> "", text |-> <<>>]
                  ELSE IF current_file.t # "bensorted" THEN Raise("AttributeError")
                  ELSE file_path(current_file.sorted, name, file_index)
         IN  IF p.err # "" THEN Raise(p.err)
             ELSE IF current_file.t # "bensorted" THEN Raise("AttributeError")
             ELSE files_loop(items, file_index + 1,
                             IF mf # <<>> THEN <<mf[1] - 1>> ELSE mf,
                             IF names /\ Len(name) = 0 THEN p.text ELSE name,
                             names,
                             Append(files,
                                    [name |-> p.text,
                                     size |-> coerce_size(Bensorted_get(current_file.sorted,
                                                                        K_length, IntV(0)))]))

\* lines 64-193: the three layouts, [err, name, files]
layout_v2(s, names) ==
    LET nm == torrent_name(s, names)
    IN  IF nm.err # "" THEN Raise(nm.err)
        ELSE LET ft == decode_file_tree(Bensorted_getitem(s, K_file_tree).v.sorted, <<>>, 1, <<>>)
             IN  IF ft.err # "" THEN Raise(ft.err)
                 ELSE [err |-> "", name |-> nm.text, files |-> ft.files]

layout_files(s, mf, names) ==
    LET nm == torrent_name(s, names)
    IN  IF nm.err # "" THEN Raise(nm.err)
        ELSE LET it == iter_items(Bensorted_getitem(s, K_files).v)
             IN  IF it.err # "" THEN Raise(it.err)
                 ELSE files_loop(it.items, 1, mf, nm.text, names, <<>>)

layout_single(s, names) ==
    IF ~((Bensorted_contains(s, K_name_utf8) \/ Bensorted_contains(s, K_name))
         /\ Bensorted_contains(s, K_length))
    THEN [err |-> "", name |-> <<>>, files |-> <<>>]
    ELSE LET nm == single_file_name(s, names)
         IN  IF nm.err # "" THEN Raise(nm.err)
             ELSE [err |-> "", name |-> nm.text,
                   files |-> <<[name |-> nm.text,
                                size |-> coerce_size(Bensorted_getitem(s, K_length).v)]>>]

is_v2(s) ==
    /\ Bensorted_contains(s, K_file_tree)
    /\ Bensorted_get(s, K_file_tree, PyNone).t = "bensorted"

extract_layout(s, mf, names) ==
    IF is_v2(s) THEN layout_v2(s, names)
    ELSE IF Bensorted_contains(s, K_files) THEN layout_files(s, mf, names)
    ELSE layout_single(s, names)

\* lines 199-230: the fingerprints.  A digest is kept as the algorithm and
\* the bytes fed to it, so two digests are equal exactly when their feeds are.
Sha1(data) == [alg |-> "sha1", data |-> data]
Sha256(data) == [alg |-> "sha256", data |-> data]

HexDigit(n) == IF n < 10 THEN Byte_0 + n ELSE Byte_a + (n - 10)

\* bytes.hex()
RECURSIVE BytesHex(_)
BytesHex(b) ==
    IF b = <<>> THEN <<>>
    ELSE <<HexDigit(b[1] \div 16), HexDigit(b[1] % 16)>> \o BytesHex(Tail(b))

\* the digits of hex(n), n >= 0
RECURSIVE HexStr(_)
HexStr(n) == IF n < 16 THEN <<HexDigit(n)>> ELSE HexStr(n \div 16) \o <<HexDigit(n % 16)>>

\* repr() of bytes holding no quote, backslash, tab or line break
RECURSIVE ReprBytesBody(_)
ReprBytesBody(b) ==
    IF b = <<>> THEN <<>>
    ELSE (IF b[1] >= 32 /\ b[1] <= 126 THEN <<b[1]>>
          ELSE <<92, 120, HexDigit(b[1] \div 16), HexDigit(b[1] % 16)>>)
         \o ReprBytesBody(Tail(b))

\* str(size).  A Bensorted has the default repr of object, which shows the
\* address the object was allocated at: id is that address.
RECURSIVE PyStr(_, _)
RECURSIVE PyStrItems(_, _, _)
PyStr(v, id) ==
    IF v.t = "int" THEN IntStr(v.i)
    ELSE IF v.t = "bytes" THEN <<98, 39>> \o ReprBytesBody(v.b) \o <<39>>
    ELSE IF v.t = "list" THEN <<91>> \o PyStrItems(v.l, 1, id) \o <<93>>
    ELSE T_bensorted_repr \o HexStr(id) \o T_close

PyStrItems(l, k, id) ==
    IF k > Len(l) THEN <<>>
    ELSE (IF k > 1 THEN <<44, 32>> ELSE <<>>) \o PyStr(l[k], id) \o PyStrItems(l, k + 1, id)

\* a == b for two distinct objects produced by the decoder
RECURSIVE PyEq(_, _)
PyEq(a, b) ==
    IF a.t = "int" /\ b.t = "int" THEN a.i = b.i
    ELSE IF a.t = "bytes" /\ b.t = "bytes" THEN a.b = b.b
    ELSE IF a.t = "list" /\ b.t = "list"
         THEN Len(a.l) = Len(b.l) /\ \A k \in 1 .. Len(a.l) : PyEq(a.l[k], b.l[k])
    ELSE FALSE

\* a < b: "T", "F", or "E" when Python raises TypeError
RECURSIVE PyLt(_, _)
PyLt(a, b) ==
    IF a.t = "int" /\ b.t = "int" THEN (IF a.i < b.i THEN "T" ELSE "F")
    ELSE IF a.t = "bytes" /\ b.t = "bytes" THEN (IF BytesLt(a.b, b.b) THEN "T" ELSE "F")
    ELSE IF a.t = "list" /\ b.t = "list"
         THEN LET diff == {k \in 1 .. Min({Len(a.l), Len(b.l)}) : ~PyEq(a.l[k], b.l[k])}
              IN  IF diff = {} THEN (IF Len(a.l) < Len(b.l) THEN "T" ELSE "F")
                  ELSE LET k == CHOOSE j \in diff : \A m \in diff : j <= m
                       IN  PyLt(a.l[k], b.l[k])
    ELSE "E"

\* (f.name, f.size) < (g.name, g.size), the sort key of line 205
KeyLt(f, g) ==
    IF f.name # g.name THEN (IF BytesLt(f.name, g.name) THEN "T" ELSE "F")
    ELSE IF PyEq(f.size, g.size) THEN "F"
    ELSE PyLt(f.size, g.size)

\* sorted() raises TypeError when it compares two keys that cannot be
\* ordered; two files of one name are neighbours in any sorted order.
SortRaises(files) ==
    \E j, k \in 1 .. Len(files) : j # k /\ KeyLt(files[j], files[k]) = "E"

RECURSIVE sort_insert(_, _)
sort_insert(done, f) ==
    IF done = <<>> THEN <<f>>
    ELSE IF KeyLt(f, done[1]) = "T" THEN <<f>> \o done
    ELSE <<done[1]>> \o sort_insert(Tail(done), f)

\* sorted(files, key=...), stable
RECURSIVE sorted_files(_)
sorted_files(files) ==
    IF files = <<>> THEN <<>>
    ELSE sort_insert(sorted_files(SubSeq(files, 1, Len(files) - 1)), files[Len(files)])

\* the files with the text str() gives for each size; the size object of
\* file k sits at address addr + k
with_str(files, addr) ==
    [k \in 1 .. Len(files) |->
        [name |-> files[k].name, size |-> files[k].size, str |-> PyStr(files[k].size, addr + k)]]

RECURSIVE hash_feed(_)
hash_feed(files) ==
    IF files = <<>> THEN <<>>
    ELSE Utf8Encode(files[1].name) \o Utf8Encode(files[1].str) \o hash_feed(Tail(files))

files_hash(files, addr) == Sha1(hash_feed(sorted_files(with_str(files, addr))))

extra_of(s, files, addr) ==
    LET pieces == Bensorted_get(s, K_pieces, BytesV(<<>>))
        torrent_version == Bensorted_get(s, K_meta_version, IntV(1))
    IN  IF pieces.t # "bytes" THEN Raise("TypeError")
        ELSE IF SortRaises(files) THEN Raise("TypeError")
        ELSE IF torrent_version.t # "int" THEN Raise("TypeError")
        ELSE [err |-> "",
              piece_hash |-> Sha1(pieces.b),
              first_chunk |-> BytesHex(PySlice(pieces.b, 0, 20)),
              files_hash |-> files_hash(files, addr),
              torrent_version |-> torrent_version,
              hybrid |-> torrent_version.i >= 2 /\ Bensorted_contains(s, K_pieces),
              v1_hash |-> Sha1(bencode(Bensorted(s))),
              v2_hash |-> Sha256(bencode(Bensorted(s)))]

\* lines 195-230: the result, once the layout is read
finish_torrent(s, lay, extra) ==
    IF extra.err # "" THEN Raise(extra.err)
    ELSE [err |-> "",
          name |-> lay.name,
          files |-> lay.files,
          piece_length |-> Bensorted_get(s, K_piece_length, IntV(0)),
          extra |-> extra]

\* lines 62-230, s the entries of the info dictionary
describe_info(s, lay, addr) ==
    IF lay.err # "" THEN Raise(lay.err)
    ELSE finish_torrent(s, lay, extra_of(s, lay.files, addr))

\* lines 58-230, inf the info dictionary or the error of reaching it
describe_torrent(inf, mf, names, addr) ==
    IF inf.err # "" THEN Raise(inf.err)
    ELSE IF inf.v.t # "bensorted" THEN Raise("AttributeError")
    ELSE describe_info(inf.v.sorted, extract_layout(inf.v.sorted, mf, names), addr)

\* lines 57-230, d the outcome of bdecode
after_bdecode(d, mf, names, addr) ==
    IF d.err # "" THEN Raise(d.err)
    ELSE describe_torrent(info_of(d.v), mf, names, addr)

\* decode_torrent(torrent, quiet=True, max_files, decode_names); addr is where
\* the allocator puts the objects of this call
decode_torrent(torrent, mf, names, addr) ==
    after_bdecode(bdecode(torrent, TRUE), mf, names, addr)

----------------------------------------------------------------------------
(* Callers of decode_torrent.  The torrents are the encodings of info       *)
(* dictionaries put together from a name part, a layout part and the other  *)
(* fields, each of them present, absent or of an unexpected type.           *)

MaxFileEntries == 2
MaxFilesArg == 2
MaxAddr == 1
\* where the allocator may put the first object of a call
BaseAddr == 16 * 255

Entry(k, v) == <<k, v>>
Str(s) == BytesV(s)

NameParts ==
    { <<>>,
      <<Entry(K_name, Str(<<>>))>>,
      <<Entry(K_name, Str(<<110>>))>>,
      <<Entry(K_name, Str(<<255>>))>>,
      <<Entry(K_name, IntV(7))>>,
      <<Entry(K_name, ListV(<<Str(<<120>>)>>))>>,
      <<Entry(K_name, ListV(<<>>))>>,
      <<Entry(K_name, ListV(<<ListV(<<>>)>>))>>,
      <<Entry(K_name_utf8, Str(<<195, 169>>)), Entry(K_name, Str(<<110>>))>> }

FileEntries ==
    { Bensorted(<<Entry(K_path, ListV(<<Str(<<Byte_a>>)>>)), Entry(K_length, IntV(1))>>),
      Bensorted(<<Entry(K_path, ListV(<<Str(<<Byte_d>>), Str(<<Byte_b>>)>>)),
                  Entry(K_length, Str(<<Byte_0 + 2>>))>>),
      Bensorted(<<Entry(K_length, ListV(<<IntV(3)>>))>>),
      Bensorted(<<Entry(K_path, ListV(<<Str(<<Byte_a>>)>>)), Entry(K_length, Bensorted(<<>>))>>),
      IntV(4) }

FilesValues ==
    {ListV(l) : l \in UNION {[1 .. n -> FileEntries] : n \in 0 .. MaxFileEntries}}
    \cup {IntV(7), Str(<<Byte_a, Byte_b>>), Bensorted(<<Entry(<<Byte_a>>, IntV(1))>>)}

Leaf(size) == Bensorted(<<Entry(<<>>, Bensorted(<<Entry(K_length, size)>>))>>)

FileTrees ==
    { Bensorted(<<Entry(<<Byte_a>>, Leaf(IntV(1)))>>),
      Bensorted(<<Entry(<<Byte_d>>, Bensorted(<<Entry(<<Byte_a>>, Leaf(IntV(1))),
                                                Entry(<<Byte_b>>, Leaf(Str(<<120>>)))>>))>>),
      Bensorted(<<Entry(<<Byte_a>>, Bensorted(<<Entry(<<>>, Bensorted(<<>>))>>)),
                  Entry(<<Byte_b>>, IntV(2))>>),
      Bensorted(<<Entry(<<Byte_a>>, Bensorted(<<Entry(<<>>, IntV(5))>>))>>),
      Bensorted(<<Entry(<<>>, Bensorted(<<Entry(K_length, IntV(1))>>))>>),
      Bensorted(<<Entry(<<Byte_a>>, Leaf(IntV(1))), Entry(<<Byte_a>>, Leaf(Bensorted(<<>>)))>>),
      Bensorted(<<Entry(<<Byte_a>>, Bensorted(<<Entry(<<>>, Bensorted(<<>>)),
                                                Entry(<<Byte_b>>, Leaf(IntV(2)))>>))>>),
      IntV(1) }

Lengths == {IntV(5), Str(<<Byte_0 + 1, Byte_0 + 2>>), Str(<<120>>), ListV(<<IntV(3)>>), ListV(<<>>)}

LayoutParts ==
    {<<>>}
    \cup {<<Entry(K_files, v)>> : v \in FilesValues}
    \cup {<<Entry(K_file_tree, v)>> : v \in FileTrees}
    \cup {<<Entry(K_length, v)>> : v \in Lengths}

OtherParts ==
    { <<>>,
      <<Entry(K_piece_length, IntV(16)), Entry(K_pieces, Str(<<Byte_a, Byte_b, 255>>)),
        Entry(K_meta_version, IntV(2))>>,
      <<Entry(K_pieces, IntV(1))>>,
      <<Entry(K_meta_version, Str(<<Byte_0 + 2>>)), Entry(K_piece_length, Str(<<120>>))>>,
      <<Entry(K_piece_length, Str(<<Byte_0 + 1, Byte_0 + 6>>))>>,
      <<Entry(K_piece_length, ListV(<<IntV(16)>>)), Entry(K_piece_length, IntV(16))>> }

InfoDicts == {Bensorted(n \o l \o o) : n \in NameParts, l \in LayoutParts, o \in OtherParts}

OddTops ==
    { IntV(5), Str(K_info), Str(<<Byte_a>>), ListV(<<Str(K_info)>>), ListV(<<>>),
      Bensorted(<<Entry(K_info, IntV(1))>>) }

TorrentTrees ==
    InfoDicts \cup {Bensorted(<<Entry(K_info, d)>>) : d \in InfoDicts} \cup OddTops

\* buffers that are no bencoded value
BrokenTorrents == {<<>>, <<Byte_d>>, <<Byte_i, Byte_0 + 5, Byte_e, Byte_e>>}

MaxFilesArgs == {<<>>} \cup {<<m>> : m \in 0 .. MaxFilesArg}
Addresses == {BaseAddr + 16 * a : a \in 0 .. MaxAddr}

DecodeTorrent ==
    /\ pc = "torrent"
    /\ \E addr \in Addresses : res' = decode_torrent(x, max_files, decode_names, addr)
    /\ pc' = "extracted"
    /\ UNCHANGED <<x, in_order, r, out, val, objVars, max_files, decode_names, x2, res2>>

\* a second, later call of decode_torrent in the same process
DecodeTorrentAgain ==
    /\ pc = "extracted"
    /\ \E addr \in Addresses : res2' = decode_torrent(x2, max_files, decode_names, addr)
    /\ pc' = "extracted twice"
    /\ UNCHANGED <<x, in_order, r, out, val, objVars, max_files, decode_names, x2, res>>

InitTorrent ==
    /\ x \in {bencode(t) : t \in TorrentTrees} \cup BrokenTorrents
    /\ max_files \in MaxFilesArgs
    /\ decode_names \in BOOLEAN
    /\ res = NoOutcome /\ x2 = <<>> /\ res2 = NoOutcome
    /\ in_order = TRUE /\ pc = "torrent" /\ r = NoResult /\ out = <<>> /\ val = NoValue
    /\ ObjectIdle

NextTorrent == DecodeTorrent

SpecTorrent == InitTorrent /\ [][NextTorrent]_vars

\* two torrents handed to decode_torrent one after the other
HashTrees ==
    {Bensorted(<<Entry(K_name, Str(<<110>>))>> \o l) :
        l \in {<<Entry(K_files, v)>> : v \in FilesValues}
              \cup {<<Entry(K_file_tree, v)>> : v \in FileTrees}}

InitHash ==
    /\ x \in {bencode(t) : t \in HashTrees}
    /\ x2 \in {bencode(t) : t \in HashTrees}
    /\ max_files = <<>>
    /\ decode_names \in BOOLEAN
    /\ res = NoOutcome /\ res2 = NoOutcome
    /\ in_order = TRUE /\ pc = "torrent" /\ r = NoResult /\ out = <<>> /\ val = NoValue
    /\ ObjectIdle

NextHash == DecodeTorrent \/ DecodeTorrentAgain

SpecHash == InitHash /\ [][NextHash]_vars

----------------------------------------------------------------------------
(* The bencode grammar, as a recogniser that shares nothing with the        *)
(* decoder.  GrammarEnd(s, p, strict) is the 1-based position after the     *)
(* value starting at position p, or 0 when none starts there.  The strict   *)
(* grammar is canonical bencode; the lenient one also takes a sign and      *)
(* leading zeros in an integer and leading zeros in a length.               *)

AllDigits(d) == d # <<>> /\ \A k \in 1 .. Len(d) : IsDigit(d[k])
CanonDigits(d) == AllDigits(d) /\ (d[1] = Byte_0 => Len(d) = 1)

IntBodyOk(d, strict) ==
    IF strict
    THEN \/ CanonDigits(d)
         \/ d # <<>> /\ d[1] = Byte_minus /\ CanonDigits(Tail(d)) /\ Tail(d)[1] # Byte_0
    ELSE \/ AllDigits(d)
         \/ d # <<>> /\ d[1] \in {Byte_minus, Byte_plus} /\ AllDigits(Tail(d))

FirstAt(s, b, p) ==
    LET C == {k \in p .. Len(s) : s[k] = b} IN IF C = {} THEN 0 ELSE Min(C)

GrammarInt(s, p, strict) ==
    LET e == FirstAt(s, Byte_e, p + 1)
    IN  IF e # 0 /\ IntBodyOk(SubSeq(s, p + 1, e - 1), strict) THEN e + 1 ELSE 0

GrammarString(s, p, strict) ==
    LET c == FirstAt(s, Byte_colon, p)
        d == SubSeq(s, p, c - 1)
    IN  IF c # 0 /\ (IF strict THEN CanonDigits(d) ELSE AllDigits(d))
              /\ c + DigitsVal(d) <= Len(s)
        THEN c + DigitsVal(d) + 1 ELSE 0

RECURSIVE GrammarEnd(_, _, _)
RECURSIVE GrammarItems(_, _, _, _)

GrammarEnd(s, p, strict) ==
    IF p > Len(s) THEN 0
    ELSE IF s[p] = Byte_i THEN GrammarInt(s, p, strict)
    ELSE IF IsDigit(s[p]) THEN GrammarString(s, p, strict)
    ELSE IF s[p] = Byte_l THEN GrammarItems(s, p + 1, FALSE, strict)
    ELSE IF s[p] = Byte_d THEN GrammarItems(s, p + 1, TRUE, strict)
    ELSE 0

GrammarItems(s, p, keyed, strict) ==
    IF p > Len(s) THEN 0
    ELSE IF s[p] = Byte_e THEN p + 1
    ELSE LET k == IF ~keyed THEN p
                  ELSE IF IsDigit(s[p]) THEN GrammarString(s, p, strict) ELSE 0
         IN  IF k = 0 THEN 0
             ELSE LET e == GrammarEnd(s, k, strict)
                  IN  IF e = 0 THEN 0 ELSE GrammarItems(s, e, keyed, strict)

\* raw-byte order of two byte strings: a is a proper prefix of b, or the first
\* byte in which they differ is smaller in a
RawLess(a, b) ==
    \E k \in 1 .. Len(b) :
        /\ k <= Len(a) + 1
        /\ SubSeq(a, 1, k - 1) = SubSeq(b, 1, k - 1)
        /\ (k = Len(a) + 1 \/ a[k] < b[k])

\* s is exactly one canonical bencode value
WellFormed(s) == GrammarEnd(s, 1, TRUE) = Len(s) + 1

\* s is one complete value followed by at least one more byte
ValueThenExtra(s) == GrammarEnd(s, 1, TRUE) \in 2 .. Len(s)

----------------------------------------------------------------------------
(* C1: for every well-formed buffer, dictionaries with unsorted or          *)
(* duplicate keys included, bdecode(b, in_order=True) returns a value and   *)
(* bencode of that value is b again, byte for byte.                         *)
C1_RoundTripOrdered ==
    (in_order /\ WellFormed(x)) =>
        /\ pc = "decoded" => r.err = ""
        /\ pc = "encoded" => out = x

\* a well-formed dictionary whose second key sorts before its first has been
\* decoded and re-encoded
C1_Witness ==
    /\ pc = "encoded" /\ in_order /\ WellFormed(x)
    /\ r.v.t = "bensorted" /\ Len(r.v.sorted) = 2
    /\ RawLess(r.v.sorted[2][1], r.v.sorted[1][1])

(* C2: integer decoding takes canonical integers only: "i0e" is 0, "i-3e"   *)
(* is -3, and an integer token with a leading zero (other than "0") or a    *)
(* leading "-0" is rejected with a decode error and no value.               *)
IntTokenBody(s) == SubSeq(s, 2, Len(s) - 1)
IsIntToken(s) ==
    /\ Len(s) >= 3 /\ s[1] = Byte_i /\ s[Len(s)] = Byte_e
    /\ IntBodyOk(IntTokenBody(s), FALSE)
NonCanonicalInt(s) ==
    \/ IntTokenBody(s)[1] = Byte_0 /\ Len(IntTokenBody(s)) > 1
    \/ IntTokenBody(s)[1] = Byte_minus /\ IntTokenBody(s)[2] = Byte_0

C2_CanonicalIntegersOnly ==
    pc = "decoded" =>
        /\ x = <<Byte_i, Byte_0, Byte_e>> => (r.err = "" /\ r.v = IntV(0))
        /\ x = <<Byte_i, Byte_minus, Byte_3, Byte_e>> => (r.err = "" /\ r.v = IntV(0 - 3))
        /\ (IsIntToken(x) /\ NonCanonicalInt(x)) => (r.err = "BTFailure" /\ r.v = NoValue)

(* C3: a complete value followed by extra bytes fails with the              *)
(* trailing-data error and returns nothing, and the trailing-data error is  *)
(* raised for such buffers only, never for a truncated or otherwise         *)
(* malformed one.                                                           *)
C3_TrailingDataOnly ==
    pc = "decoded" =>
        /\ ValueThenExtra(x) => (r.err = "BTFailure" /\ r.msg = MsgTrailing /\ r.v = NoValue)
        /\ (r.err = "BTFailure" /\ r.msg = MsgTrailing) => ValueThenExtra(x)

(* C5: for a value built from ints, byte strings, lists and dicts,          *)
(* bencode emits the keys of every dictionary in non-decreasing raw-byte    *)
(* order, and bdecode(bencode(v), in_order=False) is v again.               *)

\* the position after the value at p when the keys of every dictionary in it
\* are in non-decreasing byte order, else 0; prev is <<>> or <<previous key>>
RECURSIVE KeysOrderedEnd(_, _)
RECURSIVE KeysOrderedItems(_, _, _, _)

KeysOrderedEnd(s, p) ==
    IF p > Len(s) THEN 0
    ELSE IF s[p] = Byte_i THEN GrammarInt(s, p, TRUE)
    ELSE IF IsDigit(s[p]) THEN GrammarString(s, p, TRUE)
    ELSE IF s[p] = Byte_l THEN KeysOrderedItems(s, p + 1, FALSE, <<>>)
    ELSE IF s[p] = Byte_d THEN KeysOrderedItems(s, p + 1, TRUE, <<>>)
    ELSE 0

KeysOrderedItems(s, p, keyed, prev) ==
    IF p > Len(s) THEN 0
    ELSE IF s[p] = Byte_e THEN p + 1
    ELSE IF ~keyed
         THEN LET e == KeysOrderedEnd(s, p)
              IN  IF e = 0 THEN 0 ELSE KeysOrderedItems(s, e, keyed, prev)
    ELSE LET k == IF IsDigit(s[p]) THEN GrammarString(s, p, TRUE) ELSE 0
             c == FirstAt(s, Byte_colon, p)
             key == SubSeq(s, c + 1, k - 1)
         IN  IF k = 0 THEN 0
             ELSE IF prev # <<>> /\ RawLess(key, prev[1]) THEN 0
             ELSE LET e == KeysOrderedEnd(s, k)
                  IN  IF e = 0 THEN 0 ELSE KeysOrderedItems(s, e, keyed, <<key>>)

C5_CanonicalRoundTrip ==
    (pc \in {"start", "decoded", "encoded"} /\ val.t # "none") =>
        /\ KeysOrderedEnd(x, 1) = Len(x) + 1
        /\ pc = "decoded" => (r.err = "" /\ r.v = val)

\* a dict holding the keys "b" and "ab" (sorted "ab", "b") went through both
C5_Witness ==
    /\ pc = "decoded" /\ val.t = "dict"
    /\ {<<Byte_b>>, <<Byte_a, Byte_b>>} \subseteq DOMAIN val.d
    /\ r.err = ""

(* C6: under any sequence of method calls a Bensorted keeps its entries:    *)
(* __getitem__ and get return the value of the first entry with the key;    *)
(* __setitem__ on a present key replaces the value of the first such entry  *)
(* and nothing else (the number of entries, the order of the keys and every *)
(* other entry, later entries with the same key included, stay);            *)
(* __getitem__ and __setitem__ on an absent key raise KeyError and change   *)
(* nothing; no call adds an entry.                                          *)
Present(s, key) == \E k \in 1 .. Len(s) : s[k][1] = key
FirstOf(s, key) == Min({k \in 1 .. Len(s) : s[k][1] = key})

C6_BensortedKeepsEntries ==
    ret.op # "none" =>
        /\ Len(self_sorted) = Len(ret.before)
        /\ \A k \in 1 .. Len(self_sorted) : self_sorted[k][1] = ret.before[k][1]
        /\ ret.op # "setitem" => self_sorted = ret.before
        /\ (ret.op \in {"getitem", "get"} /\ Present(ret.before, ret.key)) =>
              (ret.err = "" /\ ret.v = ret.before[FirstOf(ret.before, ret.key)][2])
        /\ (ret.op = "setitem" /\ Present(ret.before, ret.key)) =>
              /\ ret.err = ""
              /\ \A k \in 1 .. Len(self_sorted) :
                    self_sorted[k] = IF k = FirstOf(ret.before, ret.key)
                                     THEN <<ret.key, ret.arg>> ELSE ret.before[k]
        /\ (ret.op \in {"getitem", "setitem"} /\ ~Present(ret.before, ret.key)) =>
              (ret.err = "KeyError" /\ self_sorted = ret.before)

\* __setitem__ has replaced the first of two entries with the same key
C6_Witness ==
    /\ ret.op = "setitem" /\ ret.err = ""
    /\ Cardinality({k \in 1 .. Len(ret.before) : ret.before[k][1] = ret.key}) >= 2
    /\ self_sorted # ret.before

(* C4: decode_torrent never fails: for every buffer the ordered decoder     *)
(* accepts, whatever the types of the fields, it returns a complete result  *)
(* (name, files, piece_length, extra) and raises nothing.                   *)
Decodes(s) == bdecode(s, TRUE).err = ""

C4_NeverFails ==
    (pc = "extracted" /\ Decodes(x)) =>
        /\ res.err = ""
        /\ DOMAIN res = {"err", "name", "files", "piece_length", "extra"}

(* The info dictionary of a decoded torrent, as the claims speak of it: the *)
(* value of `info` when the top level has one, else the top level; <<>>     *)
(* entries when that is no dictionary.                                      *)
EntryOf(s, key, default) == IF Present(s, key) THEN s[FirstOf(s, key)][2] ELSE default
TopOf(s) == bdecode(s, TRUE).v
InfoOf(s) ==
    IF TopOf(s).t = "bensorted" THEN EntryOf(TopOf(s).sorted, K_info, TopOf(s)) ELSE TopOf(s)
IsDict(v) == v.t = "bensorted"
InfoEntries(s) == InfoOf(s).sorted
LayoutV2(s) ==
    /\ Decodes(s) /\ IsDict(InfoOf(s))
    /\ IsDict(EntryOf(InfoEntries(s), K_file_tree, NoValue))
LayoutFiles(s) ==
    /\ Decodes(s) /\ IsDict(InfoOf(s)) /\ ~LayoutV2(s)
    /\ Present(InfoEntries(s), K_files)
LayoutSingle(s) ==
    /\ Decodes(s) /\ IsDict(InfoOf(s)) /\ ~LayoutV2(s) /\ ~LayoutFiles(s)
    /\ Present(InfoEntries(s), K_name_utf8) \/ Present(InfoEntries(s), K_name)
    /\ Present(InfoEntries(s), K_length)

(* C7: in the v2 layout the file list has exactly one entry per leaf of     *)
(* `file tree`, in depth-first stored order; a node is a leaf iff it is a   *)
(* dictionary with exactly one entry whose key is the empty byte string;    *)
(* the name is the decoded keys of the path joined with "/", the size is    *)
(* the `length` of the empty-key entry, 0 if absent; other dictionaries are *)
(* recursed into and give no file themselves.                               *)
IsLeaf(v) == IsDict(v) /\ Len(v.sorted) = 1 /\ v.sorted[1][1] = <<>>
LeafSize(v) ==
    IF IsDict(v.sorted[1][2]) THEN EntryOf(v.sorted[1][2].sorted, K_length, IntV(0)) ELSE IntV(0)

RECURSIVE LeavesOf(_, _, _)
LeavesOf(node, path, k) ==
    IF k > Len(node) THEN <<>>
    ELSE (IF IsLeaf(node[k][2])
          THEN <<[name |-> Join(Append(path, safe_decode(node[k][1]))),
                  size |-> LeafSize(node[k][2])]>>
          ELSE IF IsDict(node[k][2])
               THEN LeavesOf(node[k][2].sorted, Append(path, safe_decode(node[k][1])), 1)
          ELSE <<>>)
         \o LeavesOf(node, path, k + 1)

C7_FileTreeLeaves ==
    (pc = "extracted" /\ LayoutV2(x)) =>
        /\ res.err = ""
        /\ res.files = LeavesOf(EntryOf(InfoEntries(x), K_file_tree, NoValue).sorted, <<>>, 1)

(* C8: in the multi-file layout with max_files = m the result holds         *)
(* exactly min(m, n) files of the n entries of `files`, the first ones in   *)
(* list order; with max_files absent it holds all n.                        *)
FilesList(s) == EntryOf(InfoEntries(s), K_files, NoValue)
Untruncated(s) == decode_torrent(s, <<>>, decode_names, BaseAddr)

C8_MaxFilesTruncates ==
    (pc = "extracted" /\ LayoutFiles(x) /\ FilesList(x).t = "list") =>
        /\ res.err = ""
        /\ Len(res.files) = IF max_files = <<>> THEN Len(FilesList(x).l)
                            ELSE Min({max_files[1], Len(FilesList(x).l)})
        /\ Untruncated(x).err = "" => res.files = SubSeq(Untruncated(x).files, 1, Len(res.files))

(* C9: files_hash does not depend on the order of the file list: when the   *)
(* file lists extracted from two inputs are permutations of each other, the *)
(* bytes fed to the digest, and so the digest, are the same.                *)
Count(files, f) == Cardinality({k \in 1 .. Len(files) : files[k] = f})
PermutationOf(f, g) ==
    /\ Len(f) = Len(g)
    /\ \A k \in 1 .. Len(f) : Count(f, f[k]) = Count(g, f[k])

C9_FilesHashPermutation ==
    (pc = "extracted twice" /\ res.err = "" /\ res2.err = ""
        /\ PermutationOf(res.files, res2.files)) =>
        res.extra.files_hash = res2.extra.files_hash

(* C10: with decode_names the returned name follows one rule in the three   *)
(* layouts: `name.utf-8`, else `name`; of a list the first element, empty   *)
(* when there is none; an integer as its decimal string; decoded as text;   *)
(* "torrent" when that text is empty.  So the name is never empty.          *)
NameField(s) == EntryOf(s, K_name_utf8, EntryOf(s, K_name, BytesV(<<>>)))
NameItem(s) ==
    IF NameField(s).t = "list"
    THEN (IF Len(NameField(s).l) > 0 THEN NameField(s).l[1] ELSE BytesV(<<>>))
    ELSE NameField(s)
NameText(s) ==
    IF NameItem(s).t = "int" THEN IntStr(NameItem(s).i)
    ELSE IF NameItem(s).t = "bytes" THEN safe_decode(NameItem(s).b)
    ELSE <<>>
ResolvedName(s) == IF NameText(s) = <<>> THEN T_torrent ELSE NameText(s)

C10_NameRule ==
    (pc = "extracted" /\ decode_names /\ res.err = ""
        /\ (LayoutV2(x) \/ LayoutFiles(x) \/ LayoutSingle(x))) =>
        /\ res.name = ResolvedName(InfoEntries(x))
        /\ res.name # <<>>

(* C11: decoding always terminates: every sub-decoder (integer, byte        *)
(* string, list, dictionary, dictionary key) returns a position after the   *)
(* one it started at and not before the start of the buffer, so the nested  *)
(* decode calls never outnumber the bytes of the buffer and bdecode ends by *)
(* returning a value or raising BTFailure.                                  *)

\* the key of a dictionary entry read at position f ends after f
KeyAdvances(s, f) == decode_string(s, f).err = "" => decode_string(s, f).f > f

C11_DecodingTerminates ==
    pc = "decoded" =>
        /\ r.err \in {"", "BTFailure"}
        /\ (Len(x) > 1 /\ x[1] = Byte_d /\ x[2] # Byte_e) => KeyAdvances(x, 1)

(* C12: the piece_length decode_torrent returns is always an integer: the   *)
(* `piece length` entry of the info dictionary when that is present and an  *)
(* integer, and 0 when it is absent or a byte string, list or dictionary.   *)
PieceLengthEntry(s) == EntryOf(s, K_piece_length, IntV(0))

C12_PieceLengthInteger ==
    (pc = "extracted" /\ res.err = "") =>
        /\ res.piece_length.t = "int"
        /\ res.piece_length = IF PieceLengthEntry(InfoEntries(x)).t = "int"
                              THEN PieceLengthEntry(InfoEntries(x))
                              ELSE IntV(0)

====
